---- MODULE Spec2Model ----
(***************************************************************************)
(* YouTube Command Center: the market-data builder (get_market_data), the  *)
(* strategy engine (ai_content_engine) and the Streamlit dashboard script  *)
(* of the three variants app.py, app1.py and app2.py.                      *)
(*                                                                         *)
(* Numbers.  The code computes with floats; the model computes the same    *)
(* quantities exactly, in scaled integers:                                 *)
(*   rpm          in hundredths of a dollar (the slider's float step),     *)
(*   Earnings     in cents            (round(revenue, 2)),                 *)
(*   Engagement   in hundredths of a percent (round(engagement, 2)),       *)
(*   Virality Raw doubled (views*0.5 + likes*50 + comments*100, times 2),  *)
(*   Virality Score as an integer, or NaN where pandas yields NaN.         *)
(* Strings are sequences of tokens (characters or literal pieces).         *)
(***************************************************************************)
EXTENDS Integers, Sequences, FiniteSets, TLC

VARIABLES
    variant,          \* which script runs: "app", "app1" or "app2"
    api_key,          \* sidebar: a YouTube key is present
    ai_enabled,       \* sidebar: a Gemini key is configured
    rpm,              \* sidebar slider, hundredths of a dollar
    cache,            \* st.cache_data of get_market_data: query -> entry
    df,               \* st.session_state.df (app1, app2)
    all_tags,         \* st.session_state.all_tags (app1, app2)
    search_done,      \* st.session_state.search_done (app1, app2)
    selected,         \* index chosen in the video selectbox / radio
    screen,           \* what the last script run rendered
    epc,              \* position of the running ai_content_engine call
    eargs,            \* its arguments (video_id, title, tags)
    context_source,   \* its local context_source
    transcript_list,  \* its local transcript_list: the segments' texts
    transcript_text,  \* its local transcript_text
    prompt,           \* the prompt handed to the completion provider
    tcalls,           \* transcript provider calls issued in this run
    ccalls,           \* completion provider calls issued in this run
    tres,             \* how the transcript call resolved
    cres,             \* how the completion call resolved
    eret,             \* what the engine returned or raised
    raw,              \* the raw items handed to get_market_data called on its own
    built,            \* what that call returned
    tag_counts        \* Tag Spy: Counter(all_tags).most_common(limit)

vars == <<variant, api_key, ai_enabled, rpm, cache, df, all_tags, search_done,
          selected, screen, epc, eargs, context_source, transcript_list,
          transcript_text, prompt, tcalls, ccalls, tres, cres, eret, raw, built, tag_counts>>

dashVars == <<api_key, ai_enabled, rpm, cache, df, all_tags, search_done,
              selected, screen>>

engineVars == <<epc, eargs, context_source, transcript_list, transcript_text,
                prompt, tcalls, ccalls, tres, cres, eret>>

builderVars == <<raw, built, tag_counts>>

(***************************************************************************)
(* Bounds of the model.                                                    *)
(***************************************************************************)
MaxVideos == 2

Variants == {"app", "app1", "app2"}

\* float('nan') in the 'Virality Score' column; every score the code computes
\* from counts is >= 0, so the model writes NaN as a negative number
NaN == -1

(***************************************************************************)
(* Generic helpers.                                                        *)
(***************************************************************************)
\* dict.get(key, default)
Get(d, key, default) == IF key \in DOMAIN d THEN d[key] ELSE default

\* s[:n]
Take(s, n) == IF Len(s) <= n THEN s ELSE SubSeq(s, 1, n)

RECURSIVE Concat(_)
\* the concatenation of a sequence of sequences
Concat(ss) == IF ss = <<>> THEN <<>> ELSE Head(ss) \o Concat(Tail(ss))

RECURSIVE Join(_, _)
\* sep.join(parts)
Join(sep, parts) ==
    IF parts = <<>> THEN <<>>
    ELSE IF Len(parts) = 1 THEN Head(parts)
    ELSE Head(parts) \o sep \o Join(sep, Tail(parts))

\* sub in s, for two strings
Contains(s, sub) ==
    \E i \in 0..(Len(s) - Len(sub)) : SubSeq(s, i + 1, i + Len(sub)) = sub

\* round(n / d) for n >= 0, d > 0, ties to the even neighbour
RoundHalfEven(n, d) ==
    LET q == n \div d
        r == n % d
    IN  IF 2 * r < d THEN q
        ELSE IF 2 * r > d THEN q + 1
        ELSE IF q % 2 = 0 THEN q ELSE q + 1

RECURSIVE SeqMax(_)
\* Series.max() of a non-empty column
SeqMax(s) ==
    IF Len(s) = 1 THEN s[1]
    ELSE LET m == SeqMax(Tail(s)) IN IF s[1] >= m THEN s[1] ELSE m

(***************************************************************************)
(* get_market_data: the builder.                                           *)
(***************************************************************************)
\* engagement = ((likes + comments) / views * 100) if views > 0 else 0,
\* then round(engagement, 2): in hundredths of a percent
EngagementViewsOrOne(views, likes, comments) ==
    RoundHalfEven((likes + comments) * 10000, IF views > 0 THEN views ELSE 1)

Engagement(views, likes, comments) ==
    IF views > 0 THEN RoundHalfEven((likes + comments) * 10000, views) ELSE 0

\* revenue = (views / 1000) * rpm, then round(revenue, 2): in cents
Earnings(views, r) == RoundHalfEven(views * r, 1000)

\* raw_score = (views * 0.5) + (likes * 50) + (comments * 100), doubled
ViralityRawSwapped(views, likes, comments) == views + 200 * likes + 100 * comments

ViralityRaw2(views, likes, comments) == views + 100 * likes + 200 * comments

\* one pass of the loop body over an item of stats_res: the appended row
ScoreRecord(item, r) ==
    LET stats    == item.statistics
        snippet  == item.snippet
        views    == Get(stats, "viewCount", 0)
        likes    == Get(stats, "likeCount", 0)
        comments == Get(stats, "commentCount", 0)
    IN  [ VideoID     |-> item.id,
          Title       |-> snippet.title,
          Views       |-> views,
          Likes       |-> likes,
          Comments    |-> comments,
          Engagement  |-> Engagement(views, likes, comments),
          Earnings    |-> Earnings(views, r),
          ViralityRaw |-> ViralityRaw2(views, likes, comments),
          Tags        |-> Get(snippet, "tags", <<>>) ]

\* the loop: data.append(...) per item, in order
BuildDataReversed(items, r) ==
    [i \in 1..Len(items) |-> ScoreRecord(items[Len(items) + 1 - i], r)]

BuildData(items, r) == [i \in 1..Len(items) |-> ScoreRecord(items[i], r)]

\* the loop: if tags: all_tags.extend(tags)
BuildTagsOverwrite(items) ==
    IF items = <<>> THEN <<>> ELSE Get(items[Len(items)].snippet, "tags", <<>>)

BuildTags(items) ==
    Concat([i \in 1..Len(items) |-> Get(items[i].snippet, "tags", <<>>)])

\* df.empty
DfEmptyNever(data) == FALSE

DfEmpty(data) == Len(data) = 0

\* column in df.columns: pd.DataFrame([]) has no columns at all
HasColumns(data) == Len(data) > 0

\* df['Virality Raw'].max()
MaxFirstRow(data) == data[1].ViralityRaw

ViralityMax(data) == SeqMax([i \in 1..Len(data) |-> data[i].ViralityRaw])

\* (raw / max) * 100, then .round(0); 0.0 / 0.0 is NaN and stays NaN
ViralityScore(raw2, max2) ==
    IF max2 = 0 THEN NaN ELSE RoundHalfEven(raw2 * 100, max2)

\* the rows with the 'Virality Score' column added
Normalize(data, max2) ==
    [i \in 1..Len(data) |->
        [f \in DOMAIN data[i] \cup {"ViralityScore"} |->
            IF f = "ViralityScore"
            THEN ViralityScore(data[i].ViralityRaw, max2)
            ELSE data[i][f]]]

\* get_market_data after the two metadata requests: the returned (df,
\* all_tags), with what the function did on the way
get_market_data(items, r) ==
    LET data == BuildData(items, r)
        tags == BuildTags(items)
    IN  IF DfEmpty(data)
        THEN [raised |-> FALSE, df |-> data, all_tags |-> tags,
              maxComputed |-> FALSE, normalized |-> FALSE]
        ELSE IF ~HasColumns(data)
        THEN \* df['Virality Raw'] raises KeyError
             [raised |-> TRUE, df |-> <<>>, all_tags |-> <<>>,
              maxComputed |-> FALSE, normalized |-> FALSE]
        ELSE [raised |-> FALSE, df |-> Normalize(data, ViralityMax(data)),
              all_tags |-> tags, maxComputed |-> TRUE, normalized |-> TRUE]

(***************************************************************************)
(* Tag Spy: Counter(all_tags).most_common(30).                             *)
(***************************************************************************)
\* the limit the three scripts pass to most_common
TagLimit == 30

RECURSIVE CounterKeys(_)
\* the keys of Counter(tags): a dict keeps them in order of first insertion
CounterKeys(tags) ==
    IF tags = <<>> THEN <<>>
    ELSE LET keys == CounterKeys(SubSeq(tags, 1, Len(tags) - 1))
             t    == tags[Len(tags)]
         IN  IF \E i \in 1..Len(keys) : keys[i] = t THEN keys ELSE Append(keys, t)

\* Counter(tags)[t]
CountOf(tags, t) == Cardinality({i \in 1..Len(tags) : tags[i] = t})

\* Counter(tags).items(): (tag, count) in insertion order
CounterItems(tags) ==
    LET keys == CounterKeys(tags)
    IN  [i \in 1..Len(keys) |-> <<keys[i], CountOf(tags, keys[i])>>]

\* one insertion of sorted(items, key=count, reverse=True): the sort is
\* stable, an item goes behind every item whose count is not smaller
InsertBeforeEqual(sorted, e) ==
    LET k == Cardinality({i \in 1..Len(sorted) : sorted[i][2] > e[2]})
    IN  SubSeq(sorted, 1, k) \o <<e>> \o SubSeq(sorted, k + 1, Len(sorted))

InsertStable(sorted, e) ==
    LET k == Cardinality({i \in 1..Len(sorted) : sorted[i][2] >= e[2]})
    IN  SubSeq(sorted, 1, k) \o <<e>> \o SubSeq(sorted, k + 1, Len(sorted))

RECURSIVE SortByCount(_)
\* heapq.nlargest(n, items, key=count) is sorted(..., reverse=True)[:n]
SortByCount(items) ==
    IF items = <<>> THEN <<>>
    ELSE InsertStable(SortByCount(SubSeq(items, 1, Len(items) - 1)),
                      items[Len(items)])

\* Counter(tags).most_common(n)
most_common(tags, n) == Take(SortByCount(CounterItems(tags)), n)

(***************************************************************************)
(* The metadata source's answers: the items of stats_res.                  *)
(***************************************************************************)
StatKeys == {"viewCount", "likeCount", "commentCount"}

\* the counts an item may carry; an absent key stands for a missing count
StatValues ==
    [viewCount |-> {100, 300, 1000}, likeCount |-> {5, 50}, commentCount |-> {10, 50}]

AllStatValues == UNION {StatValues[k] : k \in StatKeys}

\* the keys an item's statistics may carry: all, none (every count then
\* defaults to 0), no view count, the view count alone
StatKeySets == {StatKeys, {}, {"likeCount", "commentCount"}, {"viewCount"}}

\* item['statistics']: one of the key sets, each key with one of its counts
StatsSet ==
    UNION {{s \in [K -> AllStatValues] : \A k \in K : s[k] \in StatValues[k]} :
              K \in StatKeySets}

\* snippet.get('tags'): absent, or a tag list
TagLists == {<<"a">>, <<"b", "a">>}

Digits == <<"1", "2", "3", "4", "5", "6">>

\* titles and video ids are strings of characters
TitleAt(i) == <<"T", Digits[i]>>

VideoIdAt(i) == <<"v", Digits[i]>>

\* item['snippet'] with or without tags
Snippet(title, tags) ==
    IF tags = <<>> THEN [title |-> title]
    ELSE [title |-> title, tags |-> tags]

\* the i-th item of a response
Item(i, title, stats, tags) ==
    [id |-> VideoIdAt(i), statistics |-> stats, snippet |-> Snippet(title, tags)]

\* the responses of n items, each titled by its position
ItemChoices == StatsSet \X (TagLists \cup {<<>>})

Response(b) == [i \in 1..Len(b) |-> Item(i, TitleAt(i), b[i][1], b[i][2])]

\* the slider's range is 0.5 .. 20.0, 3.0 by default
RpmValues == {125, 300}

(***************************************************************************)
(* The state outside a builder check, a dashboard or an engine run.        *)
(***************************************************************************)
NoResult == [raised |-> FALSE, df |-> <<>>, all_tags |-> <<>>,
             maxComputed |-> FALSE, normalized |-> FALSE]

NoTagCounts == [done |-> FALSE, limit |-> 0, out |-> <<>>]

BuilderIdle ==
    /\ raw = <<>>
    /\ built = [done |-> FALSE, res |-> NoResult]
    /\ tag_counts = NoTagCounts

(***************************************************************************)
(* SpecBuilder: get_market_data applied to every bounded response.         *)
(***************************************************************************)
BuilderInit ==
    /\ \E n \in 0..MaxVideos : \E b \in [1..n -> ItemChoices] : raw = Response(b)
    /\ built = [done |-> FALSE, res |-> NoResult]
    /\ tag_counts = NoTagCounts

Build ==
    /\ ~built.done
    /\ built' = [done |-> TRUE, res |-> get_market_data(raw, rpm)]
    /\ UNCHANGED <<raw, tag_counts>>

(***************************************************************************)
(* SpecTags: most_common applied to every bounded tag list and limit.      *)
(***************************************************************************)
MaxTags == 4

MaxLimit == 3

TagNames == {"a", "b", "c"}

\* the limits tried: the small ones and the scripts' own
Limits == 0..MaxLimit \cup {TagLimit}

\* the Tag Spy tab: tag_counts = Counter(all_tags).most_common(limit)
TagSpy(limit) ==
    /\ ~tag_counts.done
    /\ tag_counts' = [done |-> TRUE, limit |-> limit,
                      out |-> most_common(all_tags, limit)]

(***************************************************************************)
(* ai_content_engine: the strategy engine.                                 *)
(***************************************************************************)
FullTranscript == "Full Transcript"

Fallback == "Title & Metadata (No Captions Found)"

ErrorLabel == "Error"

\* the [:5000] / [:8000] slice of the joined transcript
CapApp == 5000

CapApp1 == 5000

CapApp2 == 8000

TranscriptCap(v) ==
    IF v = "app" THEN CapApp ELSE IF v = "app1" THEN CapApp1 ELSE CapApp2

\* the length of a long segment's text, in characters
SegmentLen == 3000

\* a segment's text of SegmentLen characters c
LongSegment(c) == [k \in 1..SegmentLen |-> c]

\* what YouTubeTranscriptApi.get_transcript may return: the segments' texts,
\* the last one longer than every cap
Transcripts ==
    { <<>>,
      << <<"h", "i">> >>,
      << <<"h", "i">>, <<"y", "o">> >>,
      << LongSegment("x"), LongSegment("y"), LongSegment("z") >> }

\* what generate_content may return as response.text
CompletionTexts == {<<"plan">>}

\* str(e) of the exceptions the completion provider may raise
ErrorMessages == {<<>>, <<"quota">>}

\* f"{tags}": the repr of a list of strings
ListRepr(tags) ==
    <<"[">> \o Join(<<", ">>, [i \in 1..Len(tags) |-> <<"'", tags[i], "'">>])
            \o <<"]">>

\* " ".join([t['text'] for t in transcript_list])[:cap]
TranscriptTextUncut(segments, cap) == Join(<<" ">>, segments)

TranscriptText(segments, cap) == Take(Join(<<" ">>, segments), cap)

\* f"Video Title: {title}. Video Tags: {tags}"
FallbackContext(title, tags) ==
    <<"Video Title: ">> \o title \o <<". Video Tags: ">> \o ListRepr(tags)

\* the except branch of the transcript fetch: the two locals it sets
OnTranscriptFailKeepLabel(title, tags) ==
    [context_source |-> FullTranscript,
     transcript_text |-> FallbackContext(title, tags)]

OnTranscriptFail(title, tags) ==
    [context_source |-> Fallback,
     transcript_text |-> FallbackContext(title, tags)]

\* where control goes once the transcript try/except is left
AfterTranscriptRetry(outcome) == IF outcome = "fail" THEN "start" ELSE "t_done"

AfterTranscript(outcome) == "t_done"

\* the prompt f-string: only the label and the context vary
Prompt(cs, tt) ==
    <<"SOURCE MATERIAL (", cs, "): \"">> \o tt \o <<"...\"", "TASK", "OUTPUT FORMAT">>

\* whether the completion call sits in a try/except (app2 only)
CatchesCompletionFailure(v) == v = "app2"

\* f"AI Error: {str(e)}"
ErrorPayload(e) == <<"AI Error: ">> \o e

NoReturn == [analysis |-> <<>>, source |-> "", exc |-> <<>>]

EngineIdle ==
    /\ epc = "idle"
    /\ eargs = [video_id |-> <<>>, title |-> <<>>, tags |-> <<>>]
    /\ context_source = ""
    /\ transcript_list = <<>>
    /\ transcript_text = <<>>
    /\ prompt = <<>>
    /\ tcalls = 0
    /\ ccalls = 0
    /\ tres = "none"
    /\ cres = "none"
    /\ eret = NoReturn

\* entry of ai_content_engine(video_id, title, tags)
EngineEntered(video_id, title, tags) ==
    /\ epc = "start"
    /\ eargs = [video_id |-> video_id, title |-> title, tags |-> tags]
    /\ context_source = FullTranscript
    /\ transcript_list = <<>>
    /\ transcript_text = <<>>
    /\ prompt = <<>>
    /\ tcalls = 0
    /\ ccalls = 0
    /\ tres = "none"
    /\ cres = "none"
    /\ eret = NoReturn

\* the call ai_content_engine(video_id, title, tags) as a step of a run
EngineEnter(video_id, title, tags) ==
    /\ epc' = "start"
    /\ eargs' = [video_id |-> video_id, title |-> title, tags |-> tags]
    /\ context_source' = FullTranscript
    /\ transcript_list' = <<>>
    /\ transcript_text' = <<>>
    /\ prompt' = <<>>
    /\ tcalls' = 0
    /\ ccalls' = 0
    /\ tres' = "none"
    /\ cres' = "none"
    /\ eret' = NoReturn

\* the call is over and its frame gone
EngineLeave ==
    /\ epc' = "idle"
    /\ eargs' = [video_id |-> <<>>, title |-> <<>>, tags |-> <<>>]
    /\ context_source' = ""
    /\ transcript_list' = <<>>
    /\ transcript_text' = <<>>
    /\ prompt' = <<>>
    /\ tcalls' = 0
    /\ ccalls' = 0
    /\ tres' = "none"
    /\ cres' = "none"
    /\ eret' = NoReturn

\* YouTubeTranscriptApi.get_transcript(video_id) is called
TranscriptCall ==
    /\ epc = "start"
    /\ epc' = "t_wait"
    /\ tcalls' = tcalls + 1
    /\ UNCHANGED <<eargs, context_source, transcript_list, transcript_text,
                   prompt, ccalls, tres, cres, eret>>

\* ... and returns its segments
TranscriptOk ==
    /\ epc = "t_wait"
    /\ \E segments \in Transcripts :
          /\ transcript_list' = segments
          /\ transcript_text' = TranscriptText(segments, TranscriptCap(variant))
    /\ tres' = "ok"
    /\ epc' = AfterTranscript("ok")
    /\ UNCHANGED <<eargs, context_source, prompt, tcalls, ccalls, cres, eret>>

\* ... or raises anything: the bare except
TranscriptFail ==
    /\ epc = "t_wait"
    /\ LET h == OnTranscriptFail(eargs.title, eargs.tags)
       IN  /\ context_source' = h.context_source
           /\ transcript_text' = h.transcript_text
    /\ tres' = "fail"
    /\ epc' = AfterTranscript("fail")
    /\ UNCHANGED <<eargs, transcript_list, prompt, tcalls, ccalls, cres, eret>>

\* the prompt is built and model.generate_content(prompt) is called
CompletionCall ==
    /\ epc = "t_done"
    /\ prompt' = Prompt(context_source, transcript_text)
    /\ ccalls' = ccalls + 1
    /\ epc' = "c_wait"
    /\ UNCHANGED <<eargs, context_source, transcript_list, transcript_text,
                   tcalls, tres, cres, eret>>

\* ... and returns: return response.text, context_source
CompletionOk ==
    /\ epc = "c_wait"
    /\ \E text \in CompletionTexts :
          eret' = [analysis |-> text, source |-> context_source, exc |-> <<>>]
    /\ cres' = "ok"
    /\ epc' = "returned"
    /\ UNCHANGED <<eargs, context_source, transcript_list, transcript_text, prompt, tcalls,
                   ccalls, tres>>

\* ... or raises: app2 returns the error payload, app and app1 let it through
CompletionFail ==
    /\ epc = "c_wait"
    /\ \E e \in ErrorMessages :
          IF CatchesCompletionFailure(variant)
          THEN /\ eret' = [analysis |-> ErrorPayload(e), source |-> ErrorLabel,
                           exc |-> <<>>]
               /\ epc' = "returned"
          ELSE /\ eret' = [analysis |-> <<>>, source |-> "", exc |-> e]
               /\ epc' = "raised"
    /\ cres' = "fail"
    /\ UNCHANGED <<eargs, context_source, transcript_list, transcript_text, prompt, tcalls,
                   ccalls, tres>>

(***************************************************************************)
(* The dashboard script.  Every user interaction reruns the script from    *)
(* the top; an action is one such run (the engine's provider calls inside  *)
(* a run are steps of their own).                                          *)
(***************************************************************************)
Queries == {"q1", "q2"}

FullStats(v, l, c) == [viewCount |-> v, likeCount |-> l, commentCount |-> c]

\* the responses the metadata source gives the dashboard: no video, one
\* video without any count, two videos, two videos that share a title
Catalogue ==
    { <<>>,
      << Item(1, TitleAt(1), <<>>, <<>>) >>,
      << Item(1, TitleAt(1), FullStats(1000, 50, 10), <<"a">>),
         Item(2, TitleAt(2), FullStats(100, 5, 50), <<"b", "a">>) >>,
      << Item(1, TitleAt(1), FullStats(1000, 50, 10), <<"a">>),
         Item(2, TitleAt(1), <<>>, <<>>) >> }

\* @st.cache_data on get_market_data (app, app2), keyed by its arguments
\* (api_key, query, max_results: a member of Queries); app1 calls it bare
CachedVariant(v) == v \in {"app", "app2"}

\* st.session_state holds the results (app1, app2); app keeps none
SessionVariant(v) == v \in {"app1", "app2"}

CacheMiss == [hit |-> FALSE, res |-> NoResult]

Screen(event, msg, has_df, rows, body, modal) ==
    [event |-> event, msg |-> msg, has_df |-> has_df, rows |-> rows,
     body |-> body, modal |-> modal]

\* df['Title'].tolist()
TitleList(d) == [i \in 1..Len(d) |-> d[i].Title]

\* df[df['Title'] == selected_video].iloc[0]
LookupRow(d, title) ==
    d[CHOOSE i \in 1..Len(d) :
         /\ d[i].Title = title
         /\ \A j \in 1..(i - 1) : d[j].Title # title]

\* the metrics and tabs over df: df['Views'] raises KeyError on a frame
\* built from no rows
BodyOf(d) == IF HasColumns(d) THEN "results" ELSE "KeyError"

\* the selectbox keeps its choice while its options are the same
KeepSelection(old, new, sel) ==
    IF TitleList(old) = TitleList(new) /\ sel <= Len(new) THEN sel ELSE 1

\* app1, app2: the rest of the run after the scan button's block, from
\* "if st.session_state.search_done:" on
RenderSession(event, msg, done, d, modal) ==
    IF ~done THEN Screen(event, msg, FALSE, <<>>, "blank", "none")
    ELSE IF BodyOf(d) = "results"
    THEN Screen(event, msg, TRUE, d, "results", modal)
    ELSE Screen(event, msg, TRUE, d, "uncaught", "none")

\* app: a run in which search_btn is False renders nothing below the search
BlankRun(event) == Screen(event, "none", FALSE, <<>>, "blank", "none")

\* the scan button with no YouTube key
ScanNoKey ==
    /\ epc = "idle"
    /\ ~api_key
    /\ screen' = IF SessionVariant(variant)
                 THEN RenderSession("scan_no_key", "no_key", search_done, df, "none")
                 ELSE Screen("scan_no_key", "no_key", FALSE, <<>>, "blank", "none")
    /\ UNCHANGED <<api_key, ai_enabled, rpm, cache, df, all_tags, search_done,
                   selected>>

\* the run's use of the value get_market_data returned
Deliver(res) ==
    IF SessionVariant(variant)
    THEN /\ df' = res.df
         /\ all_tags' = res.all_tags
         /\ search_done' = TRUE
         /\ selected' = KeepSelection(df, res.df, selected)
         /\ screen' = RenderSession("scan_ok", "none", TRUE, res.df, "none")
    ELSE /\ UNCHANGED <<df, all_tags, search_done>>
         /\ selected' = 1
         /\ screen' = IF BodyOf(res.df) = "results"
                      THEN Screen("scan_ok", "none", TRUE, res.df, "results", "none")
                      ELSE \* except Exception as e: st.error(...)
                           Screen("scan_ok", "generic_error", TRUE, res.df,
                                  "blank", "none")

\* the scan button, the query's result being cached
ScanHit(q) ==
    /\ epc = "idle"
    /\ api_key
    /\ CachedVariant(variant)
    /\ cache[q].hit
    /\ Deliver(cache[q].res)
    /\ UNCHANGED <<api_key, ai_enabled, rpm, cache>>

\* the scan button, the metadata source answering with items
ScanFetch(q) ==
    /\ epc = "idle"
    /\ api_key
    /\ ~(CachedVariant(variant) /\ cache[q].hit)
    /\ \E items \in Catalogue :
          LET res == get_market_data(items, rpm)
          IN  /\ ~res.raised
              /\ cache' = IF CachedVariant(variant)
                          THEN [cache EXCEPT ![q] = [hit |-> TRUE, res |-> res]]
                          ELSE cache
              /\ Deliver(res)
    /\ UNCHANGED <<api_key, ai_enabled, rpm>>

\* the scan button, the metadata source raising
ScanFail(q) ==
    /\ epc = "idle"
    /\ api_key
    /\ ~(CachedVariant(variant) /\ cache[q].hit)
    /\ screen' = IF SessionVariant(variant)
                 THEN RenderSession("scan_failed", "scan_error", search_done, df, "none")
                 ELSE Screen("scan_failed", "generic_error", FALSE, <<>>,
                             "blank", "none")
    /\ selected' = IF SessionVariant(variant) THEN selected ELSE 1
    /\ UNCHANGED <<api_key, ai_enabled, rpm, cache, df, all_tags, search_done>>

\* the RPM slider is moved
SetRpm(r) ==
    /\ epc = "idle"
    /\ r # rpm
    /\ rpm' = r
    /\ screen' = IF SessionVariant(variant)
                 THEN RenderSession("rerun", "none", search_done, df, "none")
                 ELSE BlankRun("rerun")
    /\ selected' = IF SessionVariant(variant) THEN selected ELSE 1
    /\ UNCHANGED <<api_key, ai_enabled, cache, df, all_tags, search_done>>

\* another entry of the video list is chosen
Select(i) ==
    /\ epc = "idle"
    /\ screen.body = "results"
    /\ i \in 1..Len(screen.rows)
    /\ i # selected
    /\ selected' = IF SessionVariant(variant) THEN i ELSE 1
    /\ screen' = IF SessionVariant(variant)
                 THEN RenderSession("rerun", "none", search_done, df, "none")
                 ELSE BlankRun("rerun")
    /\ UNCHANGED <<api_key, ai_enabled, rpm, cache, df, all_tags, search_done>>

\* app: the strategy button sits inside "if search_btn and api_key:", and
\* search_btn is False in the run its click causes
StrategyClickNested ==
    /\ epc = "idle"
    /\ ~SessionVariant(variant)
    /\ screen.body = "results"
    /\ ai_enabled
    /\ screen' = BlankRun("strategy")
    /\ selected' = 1
    /\ UNCHANGED <<api_key, ai_enabled, rpm, cache, df, all_tags, search_done>>
    /\ UNCHANGED engineVars

\* app1, app2: the strategy button calls show_ai_modal on the looked-up row
StrategyClick ==
    /\ epc = "idle"
    /\ SessionVariant(variant)
    /\ screen.body = "results"
    /\ ai_enabled
    /\ LET row == LookupRow(df, TitleList(df)[selected])
       IN  EngineEnter(row.VideoID, row.Title, row.Tags)
    /\ screen' = RenderSession("strategy", "none", search_done, df, "running")
    /\ UNCHANGED <<api_key, ai_enabled, rpm, cache, df, all_tags, search_done,
                   selected>>

\* show_ai_modal after ai_content_engine: the dialog's content, or the
\* exception leaving the script
ModalShow ==
    /\ epc \in {"returned", "raised"}
    /\ screen' =
          IF epc = "raised"
          THEN [screen EXCEPT !.body = "uncaught", !.modal = "uncaught"]
          ELSE IF variant = "app2" /\ eret.source = ErrorLabel
          THEN [screen EXCEPT !.modal = "error_payload"]
          ELSE [screen EXCEPT !.modal = "strategy"]
    /\ EngineLeave
    /\ UNCHANGED <<api_key, ai_enabled, rpm, cache, df, all_tags, search_done,
                   selected>>

(***************************************************************************)
(* Specifications.                                                         *)
(***************************************************************************)
DashIdle ==
    /\ api_key = TRUE
    /\ ai_enabled = TRUE
    /\ cache = [q \in Queries |-> CacheMiss]
    /\ df = <<>>
    /\ all_tags = <<>>
    /\ search_done = FALSE
    /\ selected = 1
    /\ screen = BlankRun("init")

\* the dashboard: a fresh session of one of the three scripts
Init ==
    /\ variant \in Variants
    /\ api_key \in BOOLEAN
    /\ ai_enabled \in BOOLEAN
    /\ rpm = 300
    /\ cache = [q \in Queries |-> CacheMiss]
    /\ df = <<>>
    /\ all_tags = <<>>
    /\ search_done = FALSE
    /\ selected = 1
    /\ screen = BlankRun("init")
    /\ EngineIdle
    /\ BuilderIdle

\* a run of the script outside the engine
DashFrame == UNCHANGED <<variant, engineVars, builderVars>>

\* a step of the engine
EngineFrame == UNCHANGED <<variant, dashVars, builderVars>>

Next ==
    \/ ScanNoKey /\ DashFrame
    \/ \E q \in Queries : ScanHit(q) /\ DashFrame
    \/ \E q \in Queries : ScanFetch(q) /\ DashFrame
    \/ \E q \in Queries : ScanFail(q) /\ DashFrame
    \/ \E r \in RpmValues : SetRpm(r) /\ DashFrame
    \/ \E i \in 1..MaxVideos : Select(i) /\ DashFrame
    \/ StrategyClickNested /\ UNCHANGED <<variant, builderVars>>
    \/ StrategyClick /\ UNCHANGED <<variant, builderVars>>
    \/ TranscriptCall /\ EngineFrame
    \/ TranscriptOk /\ EngineFrame
    \/ TranscriptFail /\ EngineFrame
    \/ CompletionCall /\ EngineFrame
    \/ CompletionOk /\ EngineFrame
    \/ CompletionFail /\ EngineFrame
    \/ ModalShow /\ UNCHANGED <<variant, builderVars>>

Spec == Init /\ [][Next]_vars

\* the engine called on its own, on every bounded argument
EngineInit ==
    /\ variant \in Variants
    /\ rpm = 300
    /\ DashIdle
    /\ BuilderIdle
    /\ \E title \in {TitleAt(1), TitleAt(2)}, tags \in TagLists \cup {<<>>} :
          EngineEntered(VideoIdAt(1), title, tags)

EngineNext ==
    \/ TranscriptCall /\ EngineFrame
    \/ TranscriptOk /\ EngineFrame
    \/ TranscriptFail /\ EngineFrame
    \/ CompletionCall /\ EngineFrame
    \/ CompletionOk /\ EngineFrame
    \/ CompletionFail /\ EngineFrame

SpecEngine == EngineInit /\ [][EngineNext]_vars

\* the builder called on its own, on every bounded response
BuilderOnlyInit ==
    /\ variant = "app"   \* the builder's loop is the same in the three scripts
    /\ rpm \in RpmValues
    /\ DashIdle
    /\ EngineIdle
    /\ BuilderInit

BuilderNext == Build /\ UNCHANGED <<variant, dashVars, engineVars>>

SpecBuilder == BuilderOnlyInit /\ [][BuilderNext]_vars

\* the Tag Spy tab on its own, on every bounded tag list
TagsInit ==
    /\ variant \in Variants
    /\ api_key = TRUE
    /\ ai_enabled = TRUE
    /\ rpm = 300
    /\ cache = [q \in Queries |-> CacheMiss]
    /\ df = <<>>
    /\ \E n \in 0..MaxTags : all_tags \in [1..n -> TagNames]
    /\ search_done = TRUE
    /\ selected = 1
    /\ screen = BlankRun("init")
    /\ EngineIdle
    /\ BuilderIdle

TagsNext ==
    \E limit \in Limits :
        TagSpy(limit) /\ UNCHANGED <<variant, dashVars, engineVars, raw, built>>

SpecTags == TagsInit /\ [][TagsNext]_vars

(***************************************************************************)
(* Properties of the strategy engine (SpecEngine).                         *)
(***************************************************************************)
EngineOver == epc \in {"returned", "raised"}

\* C1: when the completion provider fails, the engine does not raise: it
\* returns the label Error and a non-empty error message, in every variant,
\* whether the transcript fetch succeeded or failed.
C1_CompletionFailureContained ==
    cres = "fail" =>
        /\ epc = "returned"
        /\ eret.source = ErrorLabel
        /\ Len(eret.analysis) > 0

\* C2: when the transcript provider fails, the engine goes on (it raises only
\* if the completion call fails later), its context string is built from the
\* title and the tags and contains the title, the label it carries (its
\* context_source, embedded in the prompt and returned with the completion's
\* text) is the title-and-metadata fallback.
C2_TranscriptFailureFallsBack ==
    tres = "fail" =>
        /\ epc = "raised" => cres = "fail"
        /\ context_source = Fallback
        /\ transcript_text = FallbackContext(eargs.title, eargs.tags)
        /\ Contains(transcript_text, eargs.title)
        /\ ccalls > 0 =>
              /\ Contains(prompt, transcript_text)
              /\ Contains(prompt, <<Fallback>>)
        /\ cres = "ok" => epc = "returned" /\ eret.source = Fallback

C2_Witness ==
    /\ tres = "fail"
    /\ epc = "returned"
    /\ eret.source = Fallback
    /\ Len(eargs.title) > 0
    /\ Len(eargs.tags) > 0

\* C9: in a run of the engine the transcript provider is called exactly once
\* and the completion provider at most once, also after a failure, and the
\* completion call is issued only once the transcript call has resolved.
C9_OneCallPerStage ==
    /\ tcalls <= 1
    /\ ccalls <= 1
    /\ tres # "none" => tcalls = 1
    /\ ccalls > 0 => tres # "none"
    /\ cres # "none" => ccalls = 1
    /\ EngineOver => tcalls = 1 /\ tres # "none"

C9_Witness ==
    /\ EngineOver
    /\ tres = "fail"
    /\ cres = "fail"
    /\ tcalls = 1
    /\ ccalls = 1

\* C10: the label the engine returns is one of three values and matches the
\* two outcomes: Full Transcript iff both calls succeeded, the fallback label
\* iff the transcript failed and the completion succeeded, Error iff the
\* completion failed.
C10_LabelMatchesOutcomes ==
    cres # "none" =>
        /\ epc = "returned"
        /\ eret.source \in {FullTranscript, Fallback, ErrorLabel}
        /\ eret.source = FullTranscript <=> (tres = "ok" /\ cres = "ok")
        /\ eret.source = Fallback <=> (tres = "fail" /\ cres = "ok")
        /\ eret.source = ErrorLabel <=> cres = "fail"

(***************************************************************************)
(* Properties of the builder (SpecBuilder).                                *)
(***************************************************************************)
Rows == built.res.df

\* row i holds the largest virality_raw of the result set
IsMaxRow(i) == \A j \in 1..Len(Rows) : Rows[j].ViralityRaw <= Rows[i].ViralityRaw

\* C3 as stated: for every non-empty input, every record whose virality_raw
\* is the maximum of the set has virality_score 100.
C3_MaxScores100 ==
    (built.done /\ raw # <<>>) =>
        \A i \in 1..Len(Rows) : IsMaxRow(i) => Rows[i].ViralityScore = 100

\* C3 amended: for every non-empty input whose maximum virality_raw is
\* positive, every record holding the maximum has virality_score 100.
C3_MaxScores100WhenPositive ==
    (built.done /\ raw # <<>>) =>
        \A i \in 1..Len(Rows) :
            (IsMaxRow(i) /\ Rows[i].ViralityRaw > 0) => Rows[i].ViralityScore = 100

C3_Witness ==
    /\ built.done
    /\ Len(Rows) = 2
    /\ Rows[1].ViralityRaw < Rows[2].ViralityRaw
    /\ Rows[2].ViralityScore = 100
    /\ Rows[1].ViralityScore = 75

\* C4: when every record of a non-empty set has virality_raw 0, the builder
\* skips normalization and every virality_score is 0, none undefined.
C4_AllZeroScoresZero ==
    (built.done /\ raw # <<>> /\ \A i \in 1..Len(Rows) : Rows[i].ViralityRaw = 0) =>
        /\ ~built.res.raised
        /\ ~built.res.normalized
        /\ \A i \in 1..Len(Rows) : Rows[i].ViralityScore = 0

\* C5: on an empty list of raw records, with any rpm > 0, the builder returns
\* without raising an empty result set and an empty tag list, and computes no
\* maximum and no normalization.
C5_EmptyInput ==
    (built.done /\ raw = <<>> /\ rpm > 0) =>
        /\ ~built.res.raised
        /\ built.res.df = <<>>
        /\ built.res.all_tags = <<>>
        /\ ~built.res.maxComputed
        /\ ~built.res.normalized

C5_Witness == built.done /\ raw = <<>> /\ ~built.res.raised

(***************************************************************************)
(* Properties of the dashboard (Spec).                                     *)
(***************************************************************************)
\* C6: after a scan that returns no video, the consumers of the result set
\* (the summary metrics, the row selection) fail with a distinguished
\* NoVideosAvailable condition, not a generic error nor an uncaught exception.
C6_NoVideosAvailable ==
    (screen.has_df /\ screen.rows = <<>>) =>
        /\ screen.msg = "NoVideosAvailable"
        /\ screen.body # "uncaught"

\* C7: a failed scan shows an error message and leaves the stored result
\* table, tag list and scan-done flag as they were, and the results the user
\* had on screen stay on screen.
C7_FailedScanKeepsResults ==
    [][screen'.event = "scan_failed" =>
          /\ screen'.msg \in {"scan_error", "generic_error"}
          /\ df' = df
          /\ all_tags' = all_tags
          /\ search_done' = search_done
          /\ screen.body = "results" =>
                (screen'.body = "results" /\ screen'.rows = screen.rows)]_vars

\* C8: a strategy request whose completion call fails ends in a displayed
\* error payload, not in an exception, and leaves the result table, the tag
\* list and the scan-done flag unchanged, the scan results still shown.
C8_FailedStrategyIsDisplayed ==
    [][(cres = "fail" /\ EngineOver /\ epc' = "idle") =>
          /\ epc = "returned"
          /\ screen'.modal = "error_payload"
          /\ screen'.body = "results"
          /\ df' = df
          /\ all_tags' = all_tags
          /\ search_done' = search_done]_vars


(***************************************************************************)
(* Properties of the derived metrics (SpecBuilder).                        *)
(***************************************************************************)
\* C11: every scored video of every result set, the one of an all-zero
\* input included, has a defined virality_score within 0..100, an
\* engagement_pct >= 0 and an earnings_estimate >= 0.
C11_ScoresInRange ==
    built.done =>
        \A i \in 1..Len(Rows) :
            /\ Rows[i].ViralityScore \in 0..100
            /\ Rows[i].Engagement >= 0
            /\ Rows[i].Earnings >= 0

\* C12 as stated: for every scored video, engagement_pct is 0 exactly when
\* views is 0.
C12_EngagementZeroIffNoViews ==
    built.done =>
        \A i \in 1..Len(Rows) : (Rows[i].Engagement = 0) <=> (Rows[i].Views = 0)

\* C12 amended: for every scored video with views = 0, engagement_pct is 0
\* whatever its likes and comments are, and engagement_pct is never negative.
C12_NoViewsNoEngagement ==
    built.done =>
        \A i \in 1..Len(Rows) :
            /\ Rows[i].Views = 0 => Rows[i].Engagement = 0
            /\ Rows[i].Engagement >= 0

C12_Witness ==
    /\ built.done
    /\ \E i \in 1..Len(Rows) :
          /\ Rows[i].Views = 0
          /\ Rows[i].Likes > 0
          /\ Rows[i].Comments > 0
          /\ Rows[i].Engagement = 0

\* x is n / d rounded to a nearest integer (either neighbour on a tie)
IsNearest(x, n, d) == 2 * (IF x * d >= n THEN x * d - n ELSE n - x * d) <= d

\* the largest virality_raw of the result set
MaxRaw == SeqMax([i \in 1..Len(Rows) |-> Rows[i].ViralityRaw])

\* virality_raw and virality_score of row i follow the reference formulas
\* (the quotient has a value only when the maximum is not 0)
ViralityAsReference(i) ==
    /\ Rows[i].ViralityRaw =
           Rows[i].Views + 100 * Rows[i].Likes + 200 * Rows[i].Comments
    /\ MaxRaw > 0 =>
           IsNearest(Rows[i].ViralityScore, Rows[i].ViralityRaw * 100, MaxRaw)

\* the scenario: (1000, 50, 10) and (100, 5, 50) at rpm 3.0
IsScenario ==
    /\ built.done
    /\ rpm = 300
    /\ Len(Rows) = 2
    /\ <<Rows[1].Views, Rows[1].Likes, Rows[1].Comments>> = <<1000, 50, 10>>
    /\ <<Rows[2].Views, Rows[2].Likes, Rows[2].Comments>> = <<100, 5, 50>>

ScenarioAsStated ==
    IsScenario =>
        /\ Rows[1].ViralityRaw = 2 * 4000
        /\ Rows[2].ViralityRaw = 2 * 5300
        /\ Rows[1].ViralityScore = 75
        /\ Rows[2].ViralityScore = 100

\* C13 as stated: every derived metric equals its reference formula:
\* engagement_pct is (likes + comments) / views * 100 (0 without views),
\* earnings_estimate is (views / 1000) * rpm, virality_raw is
\* views*0.5 + likes*50 + comments*100, virality_score is the share of the
\* maximum in percent rounded to the nearest integer; the scenario gives
\* 4000, 5300 and 75, 100.
C13_MetricsAreReference ==
    built.done =>
        /\ \A i \in 1..Len(Rows) :
              /\ Rows[i].Views > 0 =>
                     Rows[i].Engagement * Rows[i].Views =
                         (Rows[i].Likes + Rows[i].Comments) * 10000
              /\ Rows[i].Views = 0 => Rows[i].Engagement = 0
              /\ Rows[i].Earnings * 1000 = Rows[i].Views * rpm
              /\ ViralityAsReference(i)
        /\ ScenarioAsStated

\* C13 amended: engagement_pct and earnings_estimate are their reference
\* formulas rounded to two decimals; virality_raw and virality_score are as
\* stated, and so is the scenario.
C13_MetricsAreRoundedReference ==
    built.done =>
        /\ \A i \in 1..Len(Rows) :
              /\ Rows[i].Views > 0 =>
                     IsNearest(Rows[i].Engagement,
                               (Rows[i].Likes + Rows[i].Comments) * 10000,
                               Rows[i].Views)
              /\ Rows[i].Views = 0 => Rows[i].Engagement = 0
              /\ IsNearest(Rows[i].Earnings, Rows[i].Views * rpm, 1000)
              /\ ViralityAsReference(i)
        /\ ScenarioAsStated

C13_Witness ==
    /\ IsScenario
    /\ Rows[1].Engagement = 600
    /\ Rows[1].Earnings = 300
    /\ Rows[2].Engagement = 5500
    /\ Rows[2].Earnings = 30

\* C14: the i-th scored video is derived from the i-th raw record; no record
\* is reordered, dropped or duplicated by scoring or normalization.
C14_InputOrderPreserved ==
    built.done =>
        /\ Len(Rows) = Len(raw)
        /\ \A i \in 1..Len(raw) :
              /\ Rows[i].VideoID = raw[i].id
              /\ Rows[i].Title = raw[i].snippet.title
              /\ Rows[i].Views = Get(raw[i].statistics, "viewCount", 0)
              /\ Rows[i].Likes = Get(raw[i].statistics, "likeCount", 0)
              /\ Rows[i].Comments = Get(raw[i].statistics, "commentCount", 0)

C14_Witness ==
    /\ built.done
    /\ Len(raw) = 2
    /\ raw[1].id # raw[2].id
    /\ Rows[1].VideoID = raw[1].id
    /\ Rows[1].ViralityScore < Rows[2].ViralityScore
    /\ Rows[1].Views < Rows[2].Views

\* the tag list of the i-th raw record, empty when it has none
TagsOfRaw(i) ==
    IF "tags" \in DOMAIN raw[i].snippet THEN raw[i].snippet.tags ELSE <<>>

RECURSIVE TagsBefore(_)
\* the number of tags of the records before the i-th
TagsBefore(i) == IF i = 1 THEN 0 ELSE TagsBefore(i - 1) + Len(TagsOfRaw(i - 1))

\* C15: the flattened tag list is as long as the tag lists of all videos
\* together; it keeps duplicates and holds the tags in the order of the
\* videos and of each video's own list.
C15_TagsFlattenedInOrder ==
    built.done =>
        /\ Len(built.res.all_tags) = TagsBefore(Len(raw) + 1)
        /\ \A i \in 1..Len(raw) : \A j \in 1..Len(TagsOfRaw(i)) :
              built.res.all_tags[TagsBefore(i) + j] = TagsOfRaw(i)[j]

C15_Witness ==
    /\ built.done
    /\ Len(raw) = 2
    /\ built.res.all_tags = <<"a", "b", "a">>

(***************************************************************************)
(* Properties of the Tag Spy counts (SpecTags).                            *)
(***************************************************************************)
TopTags == tag_counts.out

\* the position of the first occurrence of tag t in all_tags
FirstAt(t) == CHOOSE i \in 1..Len(all_tags) :
                  all_tags[i] = t /\ \A j \in 1..(i - 1) : all_tags[j] # t

\* the number of occurrences of tag t in all_tags
Occurrences(t) == Cardinality({i \in 1..Len(all_tags) : all_tags[i] = t})

\* C16: the top-tags output has at most limit entries, each with the number
\* of occurrences of its tag, in non-increasing order of count, equal counts
\* in order of first occurrence, and no omitted tag has a higher count than
\* an included one.
C16_TopTags ==
    tag_counts.done =>
        /\ Len(TopTags) <= tag_counts.limit
        /\ \A k \in 1..Len(TopTags) :
              /\ \E i \in 1..Len(all_tags) : all_tags[i] = TopTags[k][1]
              /\ TopTags[k][2] = Occurrences(TopTags[k][1])
        /\ \A k, l \in 1..Len(TopTags) :
              k < l =>
                  /\ TopTags[k][1] # TopTags[l][1]
                  /\ TopTags[k][2] >= TopTags[l][2]
                  /\ TopTags[k][2] = TopTags[l][2] =>
                         FirstAt(TopTags[k][1]) < FirstAt(TopTags[l][1])
        /\ \A i \in 1..Len(all_tags) :
              (\A k \in 1..Len(TopTags) : TopTags[k][1] # all_tags[i]) =>
                  /\ Len(TopTags) = tag_counts.limit
                  /\ \A k \in 1..Len(TopTags) :
                        TopTags[k][2] >= Occurrences(all_tags[i])

\* two tags tie behind a more frequent one and the limit cuts the second off
C16_Witness ==
    /\ tag_counts.done
    /\ all_tags = <<"b", "a", "c", "c">>
    /\ tag_counts.limit = 2
    /\ TopTags = << <<"c", 2>>, <<"b", 1>> >>


(***************************************************************************)
(* Properties of the transcript context (SpecEngine).                      *)
(***************************************************************************)
RECURSIVE SegmentStart(_)
\* the position before the first character of the i-th segment in the
\* text of all segments in order, one space between neighbours
SegmentStart(i) ==
    IF i = 1 THEN 0
    ELSE SegmentStart(i - 1) + Len(transcript_list[i - 1]) + 1

\* the length of that text
FullLength ==
    IF transcript_list = <<>> THEN 0
    ELSE SegmentStart(Len(transcript_list) + 1) - 1

\* C17: when the transcript fetch succeeds, the context string is the
\* text of all segments in their returned order (joined by single spaces) cut
\* to the variant's cap: it is never longer than the cap, it is a prefix of
\* the full text, and the prompt is built from the cut string.
C17_TranscriptTruncated ==
    tres = "ok" =>
        /\ Len(transcript_text) <= TranscriptCap(variant)
        /\ Len(transcript_text) =
               IF FullLength <= TranscriptCap(variant)
               THEN FullLength ELSE TranscriptCap(variant)
        /\ \A i \in 1..Len(transcript_list) :
              /\ \A j \in 1..Len(transcript_list[i]) :
                    SegmentStart(i) + j <= Len(transcript_text) =>
                        transcript_text[SegmentStart(i) + j] = transcript_list[i][j]
              /\ (i > 1 /\ SegmentStart(i) <= Len(transcript_text)) =>
                    transcript_text[SegmentStart(i)] = " "
        /\ prompt # <<>> =>
              /\ Len(prompt) = Len(transcript_text) + 6
              /\ SubSeq(prompt, 4, Len(prompt) - 3) = transcript_text

\* a transcript longer than the cap went into a prompt, cut inside a segment
C17_Witness ==
    /\ tres = "ok"
    /\ epc = "returned"
    /\ FullLength > TranscriptCap(variant)
    /\ Len(transcript_text) = TranscriptCap(variant)
    /\ transcript_text[1] # transcript_text[Len(transcript_text)]
    /\ prompt # <<>>


(***************************************************************************)
(* Properties of the dashboard's reruns (Spec), continued.                 *)
(***************************************************************************)
\* C19: the result set a scan delivers is computed with the RPM configured
\* at the moment of that scan: every earnings_estimate on the page is
\* views / 1000 times the current rate (to the cent), also when the same
\* query was scanned before under another rate.
C19_ScanUsesCurrentRpm ==
    screen.event = "scan_ok" =>
        \A i \in 1..Len(screen.rows) :
            IsNearest(screen.rows[i].Earnings, screen.rows[i].Views * rpm, 1000)

\* C20: after a successful scan with the AI key configured, a press of the
\* strategy button is never dropped: the run it causes still shows the scan
\* results and enters the strategy engine, once.
C20_StrategyRequestServed ==
    [][(/\ screen.body = "results"
        /\ ai_enabled
        /\ epc = "idle"
        /\ screen'.event = "strategy") =>
           /\ screen'.body = "results"
           /\ screen'.rows = screen.rows
           /\ epc' = "start"
           /\ tcalls' = 0
           /\ ccalls' = 0]_vars


\* C21: the video identifier, title and tags handed to the strategy engine
\* are those of the record the user selected in the list, also when two
\* records of the result set share a title.
C21_EngineGetsSelectedRecord ==
    epc # "idle" =>
        /\ selected \in 1..Len(df)
        /\ eargs.video_id = df[selected].VideoID
        /\ eargs.title = df[selected].Title
        /\ eargs.tags = df[selected].Tags

====
